---- MODULE Spec2Model ----
(***************************************************************************)
(* Model of the Express application of src/src/index.js: the items         *)
(* notebook and the feedback guestbook over a mongoose document store      *)
(* with the in-memory arrays memoryItems / memoryFeedback.                 *)
(*                                                                         *)
(* A handler runs without interruption up to its `await`; the database     *)
(* call then completes later, in any order with respect to other requests  *)
(* and to the startup connection.  A handler that awaits is therefore two  *)
(* steps: XStart (the code before the await, the request is put in         *)
(* inflight) and XDone (the database call takes effect or throws, and the  *)
(* rest of the handler runs).  A handler path without await is one step.   *)
(*                                                                         *)
(* Strings are sequences of one-character strings, so that trim() is       *)
(* computed.  Ids are pairs: <<"oid", n>> is a 24-hex ObjectId, <<"mem",n>>*)
(* is an id of the form `${Date.now()}-${random}` made by POST /items,     *)
(* which mongoose cannot cast to an ObjectId.                              *)
(***************************************************************************)
EXTENDS Integers, Sequences, FiniteSets, Bags, TLC

\* ---- bounds ------------------------------------------------------------
MaxItems == 2       \* items created by POST /items in one run
MaxFeedback == 1    \* feedback documents created in one run
MaxInFlight == 1    \* requests suspended at an await at the same time
                    \* (SpecPosts: MaxItems handlers of POST /items)

\* ---- strings -----------------------------------------------------------
Undefined == <<"undefined">>          \* a form field that was not sent
Untitled == <<"U", "n", "t", "i", "t", "l", "e", "d">>
Anonymous == <<"A", "n", "o", "n", "y", "m", "o", "u", "s">>
OK == <<"O", "K">>

RECURSIVE TrimStart(_)
TrimStart(s) == IF s # <<>> /\ Head(s) = " " THEN TrimStart(Tail(s)) ELSE s

RECURSIVE TrimEnd(_)
TrimEnd(s) ==
  IF s # <<>> /\ s[Len(s)] = " " THEN TrimEnd(SubSeq(s, 1, Len(s) - 1)) ELSE s

\* String.prototype.trim
Trim(s) == TrimEnd(TrimStart(s))

\* JavaScript `v || d` on a value that is undefined or a string
Or(v, d) == IF v = Undefined \/ v = <<>> THEN d ELSE v

\* ---- ids ---------------------------------------------------------------
NoId == <<"none", 0>>
MemId(n) == <<"mem", n>>
ObjectId(n) == <<"oid", n>>

\* variant: every id string is accepted as an ObjectId
CastsAnyId(id) == id[1] \in {"oid", "mem"}

\* mongoose casts the id of findById / findByIdAndUpdate / findByIdAndDelete
\* to an ObjectId and throws a CastError when it cannot
CastsToObjectId(id) == id[1] = "oid"

\* ---- request inputs ----------------------------------------------------
NoBody == [title |-> Undefined, content |-> Undefined,
           name |-> Undefined, message |-> Undefined]

\* a title or message that is missing, empty, only whitespace, or text in
\* whitespace
ItemBodies ==
  {[NoBody EXCEPT !.title = Undefined, !.content = Undefined],
   [NoBody EXCEPT !.title = <<>>, !.content = Undefined],
   [NoBody EXCEPT !.title = <<" ", " ">>, !.content = Undefined],
   [NoBody EXCEPT !.title = <<" ", "a", " ">>, !.content = <<"c">>]}
PutBodies ==
  {[NoBody EXCEPT !.title = <<" ", " ">>, !.content = Undefined],
   [NoBody EXCEPT !.title = <<" ", "b">>, !.content = <<"c">>]}
FeedbackBodies ==
  {[NoBody EXCEPT !.name = Undefined, !.message = Undefined],
   [NoBody EXCEPT !.name = <<" ", "n">>, !.message = <<>>],
   [NoBody EXCEPT !.name = <<" ">>, !.message = <<" ">>],
   [NoBody EXCEPT !.name = Undefined, !.message = <<" ", "m", " ">>]}
\* the :id of a request: the first id either path of POST /items makes (it
\* matches no item until that item is created, and none again once deleted)
IdParams == {MemId(1), ObjectId(1)}

\* ---- state -------------------------------------------------------------
VARIABLES
  conn,            \* startup connection: "unset" (MONGODB_URI empty),
                   \* "pending", "connected", "failed"
  useMongoDB,      \* index.js:20
  memoryItems,     \* index.js:48
  memoryFeedback,  \* index.js:49
  dbItems,         \* collection items, least recently updated first
  dbFeedback,      \* collection feedback, oldest first
  memSeq,          \* number of ids made by the in-memory path
  oidSeq,          \* number of ObjectIds made by Item.create
  inflight,        \* the bag of requests suspended at their await
  last,            \* the last step: the request and its response
  created,         \* ids POST /items has answered with a redirect
  deleted          \* ids DELETE /items/:id has removed

stores == <<memoryItems, memoryFeedback, dbItems, dbFeedback>>
vars == <<conn, useMongoDB, memoryItems, memoryFeedback, dbItems, dbFeedback,
          memSeq, oidSeq, inflight, last, created, deleted>>

NoItem == [id |-> NoId, title |-> Undefined, content |-> Undefined]
NoLocation == [path |-> "", id |-> NoId]

\* the record of a step; ev is "init", "connect", "start" (a handler reached
\* its await), "resp" (a handler answered) or "rejected" (the handler's
\* promise rejected and the handler wrote no response)
NoStep == [ev |-> "init", route |-> "", id |-> NoId, body |-> NoBody,
           status |-> 0, view |-> "", location |-> NoLocation, text |-> <<>>,
           item |-> NoItem, items |-> <<>>, store |-> "none",
           dbCalled |-> FALSE, dbFailed |-> FALSE]

Request(route, id, body) == [route |-> route, id |-> id, body |-> body]

Step(ev, req) == [NoStep EXCEPT !.ev = ev, !.route = req.route, !.id = req.id,
                                !.body = req.body]

\* res.render(view, ...) with status 200
Render(req, view) == [Step("resp", req) EXCEPT !.status = 200, !.view = view]

\* res.status(404).render("404", ...)
NotFound(req) == [Step("resp", req) EXCEPT !.status = 404, !.view = "404"]

\* res.redirect(path)
Redirect(req, path, id) ==
  [Step("resp", req) EXCEPT !.status = 302,
                            !.location = [path |-> path, id |-> id]]

\* the async handler threw outside a try block: its promise rejects and the
\* handler writes no response (what the framework and the runtime then do
\* with the rejection is not part of index.js and is not modelled)
Rejected(req) == [Step("rejected", req) EXCEPT !.dbCalled = TRUE, !.dbFailed = TRUE]

ViaDb(step) == [step EXCEPT !.store = "db", !.dbCalled = TRUE]
ViaFallback(step) == [step EXCEPT !.store = "memory", !.dbCalled = TRUE, !.dbFailed = TRUE]
ViaMemory(step) == [step EXCEPT !.store = "memory"]

\* ---- sequences ---------------------------------------------------------
RECURSIVE Reverse(_)
Reverse(s) == IF s = <<>> THEN <<>> ELSE Append(Reverse(Tail(s)), Head(s))

RemoveAt(s, i) == SubSeq(s, 1, i - 1) \o SubSeq(s, i + 1, Len(s))

Ids(s) == {s[i].id : i \in 1..Len(s)}

\* Array.prototype.find(i => i.id === id); NoItem stands for undefined
Find(arr, id) ==
  IF id \in Ids(arr)
    THEN arr[CHOOSE i \in 1..Len(arr) :
               arr[i].id = id /\ \A j \in 1..(i - 1) : arr[j].id # id]
    ELSE NoItem

\* variant: the element is written at index length - 1
PushOverLast(arr, item) ==
  IF arr = <<>> THEN <<item>> ELSE [arr EXCEPT ![Len(arr)] = item]

\* Array.prototype.push
Push(arr, item) == Append(arr, item)

\* ---- startup -----------------------------------------------------------
Init ==
  /\ conn \in {"unset", "pending"}
  /\ useMongoDB = FALSE
  /\ memoryItems = <<>>
  /\ memoryFeedback = <<>>
  /\ dbItems = <<>>
  /\ dbFeedback = <<>>
  /\ memSeq = 0
  /\ oidSeq = 0
  /\ inflight = EmptyBag
  /\ last = NoStep
  /\ created = {}
  /\ deleted = {}

\* mongoose.connect(...).then(...)
ConnectResolve ==
  /\ conn = "pending"
  /\ conn' = "connected"
  /\ useMongoDB' = TRUE
  /\ last' = [NoStep EXCEPT !.ev = "connect"]
  /\ UNCHANGED <<memoryItems, memoryFeedback, dbItems, dbFeedback, memSeq,
                 oidSeq, inflight, created, deleted>>

\* mongoose.connect(...).catch(...)
ConnectReject ==
  /\ conn = "pending"
  /\ conn' = "failed"
  /\ last' = [NoStep EXCEPT !.ev = "connect"]
  /\ UNCHANGED <<useMongoDB, memoryItems, memoryFeedback, dbItems, dbFeedback,
                 memSeq, oidSeq, inflight, created, deleted>>

\* ---- the document store ------------------------------------------------
\* The outcomes of one mongoose call.  Casting and validation happen in the
\* process and throw at once.  A command issued while the connection is not
\* open is buffered: it runs when the connection opens and throws (buffer
\* timeout) when there is or will be no connection.  On an open connection
\* a command succeeds or fails (network error, server error).
DbOutcomes(castOk, validOk) ==
  IF ~castOk \/ ~validOk THEN {"throw"}
  ELSE IF conn = "connected" THEN {"ok", "throw"}
  ELSE IF conn = "pending" THEN {}
  ELSE {"throw"}

\* itemSchema: title required and trimmed, content defaults to ""
ItemValid(data) == data.title # Undefined /\ Trim(data.title) # <<>>

ItemDoc(id, data) ==
  [id |-> id, title |-> Trim(data.title),
   content |-> IF data.content = Undefined THEN <<>> ELSE data.content]

\* feedbackSchema: name defaults to "Anonymous" and is trimmed, message
\* required and trimmed
FeedbackValid(data) == data.message # Undefined /\ Trim(data.message) # <<>>

FeedbackDoc(data) ==
  [name |-> IF data.name = Undefined THEN Anonymous ELSE Trim(data.name),
   message |-> Trim(data.message)]

\* findByIdAndUpdate(id, {$set: set}, {new: true}): keys whose value is
\* undefined are removed from the update, the schema's trim is applied to
\* the others, update validators do not run, updatedAt is set (the document
\* becomes the most recently updated one)
ApplySet(doc, set) ==
  [doc EXCEPT !.title = IF set.title = Undefined THEN @ ELSE Trim(set.title),
              !.content = IF set.content = Undefined THEN @ ELSE set.content]

Index(coll, id) == CHOOSE i \in 1..Len(coll) : coll[i].id = id

FindByIdAndUpdate(coll, id, set) ==
  Append(RemoveAt(coll, Index(coll, id)), ApplySet(coll[Index(coll, id)], set))

FindByIdAndDelete(coll, id) == RemoveAt(coll, Index(coll, id))

\* Item.find({}).sort({updatedAt: -1})
FindSorted(coll) == Reverse(coll)

\* ---- what the handlers compute -------------------------------------------
\* variant: no default after trim()
ItemDataNoDefault(body) ==
  [title |-> Trim(Or(body.title, Untitled)), content |-> Or(body.content, <<>>)]

\* index.js:117
ItemData(body) ==
  [title |-> Or(Trim(Or(body.title, Untitled)), Untitled),
   content |-> Or(body.content, <<>>)]

\* index.js:126 and 131 (the timestamps are not modelled)
MemoryItem(n, data) ==
  [id |-> MemId(n), title |-> data.title, content |-> data.content]

\* variant: a blank title is sent as "" instead of undefined
PutSetBlank(body) ==
  [title |-> Trim(Or(body.title, <<>>)), content |-> Or(body.content, <<>>)]

\* index.js:166
PutSet(body) ==
  [title |-> Or(Trim(Or(body.title, <<>>)), Undefined),
   content |-> Or(body.content, <<>>)]

\* variant: the message is not trimmed before the length test
UntrimmedMessage(body) == Or(body.message, <<>>)

\* index.js:187
TrimmedMessage(body) == Trim(Or(body.message, <<>>))

\* index.js:189
FeedbackData(body) ==
  [name |-> Or(Trim(Or(body.name, Anonymous)), Anonymous),
   message |-> TrimmedMessage(body)]

\* index.js:101
ItemsView(list) == [i \in 1..Len(list) |-> [id |-> list[i].id, title |-> list[i].title]]

\* index.js:181
FeedbackView(all) ==
  [i \in 1..Len(all) |-> [name |-> Or(all[i].name, Anonymous), message |-> all[i].message]]

\* variant: no test for a missing item
ShowFromMemoryUnchecked(req) ==
  [Render(req, "items/show") EXCEPT !.item = Find(memoryItems, req.id)]

\* index.js:145-147 and 150-152
ShowFromMemory(req) ==
  IF Find(memoryItems, req.id) = NoItem
    THEN NotFound(req)
    ELSE [Render(req, "items/show") EXCEPT !.item = Find(memoryItems, req.id)]

\* index.js:141-142
ShowFromDb(req) ==
  IF Find(dbItems, req.id) = NoItem
    THEN NotFound(req)
    ELSE [Render(req, "items/show") EXCEPT !.item = Find(dbItems, req.id)]

\* variant: the health check reports the database
HealthOfDb(req) ==
  [Step("resp", req) EXCEPT !.status = IF useMongoDB THEN 200 ELSE 503, !.text = OK]

\* index.js:196
HealthResponse(req) == [Step("resp", req) EXCEPT !.status = 200, !.text = OK]

\* ---- suspended requests ------------------------------------------------
RECURSIVE BagSum(_, _)
BagSum(B, S) ==
  IF S = {} THEN 0
  ELSE LET r == CHOOSE r \in S : TRUE IN B[r] + BagSum(B, S \ {r})

InFlightCount(route) ==
  BagSum(inflight, {r \in BagToSet(inflight) : r.route = route})


Suspend(req, limit) ==
  /\ BagCardinality(inflight) < limit
  /\ inflight' = inflight (+) SetToBag({req})
  /\ last' = Step("start", req)

Resume(req) == inflight' = inflight (-) SetToBag({req})

\* ---- GET /items (index.js:97-109) ---------------------------------------
GetItems ==
  LET req == Request("GET /items", NoId, NoBody) IN
  /\ IF useMongoDB
       THEN Suspend(req, MaxInFlight)
       ELSE /\ last' = ViaMemory([Render(req, "items/index") EXCEPT !.items = memoryItems])
            /\ UNCHANGED inflight
  /\ UNCHANGED <<conn, useMongoDB, memoryItems, memoryFeedback, dbItems,
                 dbFeedback, memSeq, oidSeq, created, deleted>>

GetItemsDone(req) ==
  /\ req.route = "GET /items"
  /\ \E outcome \in DbOutcomes(TRUE, TRUE) :
       last' = IF outcome = "ok"
                 THEN ViaDb([Render(req, "items/index") EXCEPT
                               !.items = ItemsView(FindSorted(dbItems))])
                 ELSE ViaFallback([Render(req, "items/index") EXCEPT
                                     !.items = memoryItems])
  /\ Resume(req)
  /\ UNCHANGED <<conn, useMongoDB, memoryItems, memoryFeedback, dbItems,
                 dbFeedback, memSeq, oidSeq, created, deleted>>

\* ---- POST /items (index.js:115-135) --------------------------------------
\* index.js:126-128 and 131-133
CreateInMemory(req) ==
  LET item == MemoryItem(memSeq + 1, ItemData(req.body)) IN
  /\ memoryItems' = Push(memoryItems, item)
  /\ memSeq' = memSeq + 1
  /\ created' = created \cup {item.id}
  /\ UNCHANGED <<dbItems, oidSeq>>

PostItemsUpTo(body, limit) ==
  LET req == Request("POST /items", NoId, body) IN
  /\ memSeq + oidSeq + InFlightCount("POST /items") < MaxItems
  /\ IF useMongoDB
       THEN /\ Suspend(req, limit)
            /\ UNCHANGED <<memoryItems, dbItems, memSeq, oidSeq, created>>
       ELSE /\ CreateInMemory(req)
            /\ last' = ViaMemory(Redirect(req, "/items/:id", MemId(memSeq + 1)))
            /\ UNCHANGED inflight
  /\ UNCHANGED <<conn, useMongoDB, memoryFeedback, dbFeedback, deleted>>

PostItems(body) == PostItemsUpTo(body, MaxInFlight)

PostItemsDone(req) ==
  LET itemData == ItemData(req.body) IN
  /\ req.route = "POST /items"
  /\ \E outcome \in DbOutcomes(TRUE, ItemValid(itemData)) :
       IF outcome = "ok"
         THEN /\ dbItems' = Append(dbItems, ItemDoc(ObjectId(oidSeq + 1), itemData))
              /\ oidSeq' = oidSeq + 1
              /\ created' = created \cup {ObjectId(oidSeq + 1)}
              /\ last' = ViaDb(Redirect(req, "/items/:id", ObjectId(oidSeq + 1)))
              /\ UNCHANGED <<memoryItems, memSeq>>
         ELSE /\ CreateInMemory(req)
              /\ last' = ViaFallback(Redirect(req, "/items/:id", MemId(memSeq + 1)))
  /\ Resume(req)
  /\ UNCHANGED <<conn, useMongoDB, memoryFeedback, dbFeedback, deleted>>

\* ---- GET /items/:id (index.js:137-154) -----------------------------------
GetItem(id) ==
  LET req == Request("GET /items/:id", id, NoBody) IN
  /\ IF useMongoDB
       THEN Suspend(req, MaxInFlight)
       ELSE /\ last' = ViaMemory(ShowFromMemory(req))
            /\ UNCHANGED inflight
  /\ UNCHANGED <<conn, useMongoDB, memoryItems, memoryFeedback, dbItems,
                 dbFeedback, memSeq, oidSeq, created, deleted>>

GetItemDone(req) ==
  /\ req.route = "GET /items/:id"
  /\ \E outcome \in DbOutcomes(CastsToObjectId(req.id), TRUE) :
       last' = IF outcome = "ok"
                 THEN ViaDb(ShowFromDb(req))
                 ELSE ViaFallback(ShowFromMemory(req))
  /\ Resume(req)
  /\ UNCHANGED <<conn, useMongoDB, memoryItems, memoryFeedback, dbItems,
                 dbFeedback, memSeq, oidSeq, created, deleted>>

\* ---- GET /items/:id/edit (index.js:156-160) ------------------------------
EditItem(id) ==
  /\ Suspend(Request("GET /items/:id/edit", id, NoBody), MaxInFlight)
  /\ UNCHANGED <<conn, useMongoDB, memoryItems, memoryFeedback, dbItems,
                 dbFeedback, memSeq, oidSeq, created, deleted>>

EditItemDone(req) ==
  /\ req.route = "GET /items/:id/edit"
  /\ \E outcome \in DbOutcomes(CastsToObjectId(req.id), TRUE) :
       last' = IF outcome = "ok"
                 THEN ViaDb(IF Find(dbItems, req.id) = NoItem
                              THEN NotFound(req)
                              ELSE [Render(req, "items/edit") EXCEPT
                                      !.item = Find(dbItems, req.id)])
                 ELSE Rejected(req)
  /\ Resume(req)
  /\ UNCHANGED <<conn, useMongoDB, memoryItems, memoryFeedback, dbItems,
                 dbFeedback, memSeq, oidSeq, created, deleted>>

\* ---- PUT /items/:id (index.js:162-171) -----------------------------------
PutItem(id, body) ==
  /\ Suspend(Request("PUT /items/:id", id, body), MaxInFlight)
  /\ UNCHANGED <<conn, useMongoDB, memoryItems, memoryFeedback, dbItems,
                 dbFeedback, memSeq, oidSeq, created, deleted>>

PutItemDone(req) ==
  /\ req.route = "PUT /items/:id"
  /\ \E outcome \in DbOutcomes(CastsToObjectId(req.id), TRUE) :
       IF outcome = "ok"
         THEN IF req.id \in Ids(dbItems)
                THEN /\ dbItems' = FindByIdAndUpdate(dbItems, req.id, PutSet(req.body))
                     /\ last' = ViaDb(Redirect(req, "/items/:id", req.id))
                ELSE /\ last' = ViaDb(NotFound(req))
                     /\ UNCHANGED dbItems
         ELSE /\ last' = Rejected(req)
              /\ UNCHANGED dbItems
  /\ Resume(req)
  /\ UNCHANGED <<conn, useMongoDB, memoryItems, memoryFeedback, dbFeedback,
                 memSeq, oidSeq, created, deleted>>

\* ---- DELETE /items/:id (index.js:173-177) --------------------------------
DeleteItem(id) ==
  /\ Suspend(Request("DELETE /items/:id", id, NoBody), MaxInFlight)
  /\ UNCHANGED <<conn, useMongoDB, memoryItems, memoryFeedback, dbItems,
                 dbFeedback, memSeq, oidSeq, created, deleted>>

DeleteItemDone(req) ==
  /\ req.route = "DELETE /items/:id"
  /\ \E outcome \in DbOutcomes(CastsToObjectId(req.id), TRUE) :
       IF outcome = "ok"
         THEN IF req.id \in Ids(dbItems)
                THEN /\ dbItems' = FindByIdAndDelete(dbItems, req.id)
                     /\ deleted' = deleted \cup {req.id}
                     /\ last' = ViaDb(Redirect(req, "/items", NoId))
                ELSE /\ last' = ViaDb(NotFound(req))
                     /\ UNCHANGED <<dbItems, deleted>>
         ELSE /\ last' = Rejected(req)
              /\ UNCHANGED <<dbItems, deleted>>
  /\ Resume(req)
  /\ UNCHANGED <<conn, useMongoDB, memoryItems, memoryFeedback, dbFeedback,
                 memSeq, oidSeq, created>>

\* ---- GET /feedback (index.js:179-183) ------------------------------------
GetFeedback ==
  /\ Suspend(Request("GET /feedback", NoId, NoBody), MaxInFlight)
  /\ UNCHANGED <<conn, useMongoDB, memoryItems, memoryFeedback, dbItems,
                 dbFeedback, memSeq, oidSeq, created, deleted>>

GetFeedbackDone(req) ==
  /\ req.route = "GET /feedback"
  /\ \E outcome \in DbOutcomes(TRUE, TRUE) :
       last' = IF outcome = "ok"
                 THEN ViaDb([Render(req, "feedback") EXCEPT
                               !.items = FeedbackView(FindSorted(dbFeedback))])
                 ELSE Rejected(req)
  /\ Resume(req)
  /\ UNCHANGED <<conn, useMongoDB, memoryItems, memoryFeedback, dbItems,
                 dbFeedback, memSeq, oidSeq, created, deleted>>

\* ---- POST /feedback (index.js:185-192) -----------------------------------
PostFeedback(body) ==
  LET req == Request("POST /feedback", NoId, body) IN
  /\ IF Len(TrimmedMessage(body)) > 0
       THEN /\ Len(dbFeedback) + InFlightCount("POST /feedback") < MaxFeedback
            /\ Suspend(req, MaxInFlight)
       ELSE /\ last' = Redirect(req, "/feedback", NoId)
            /\ UNCHANGED inflight
  /\ UNCHANGED <<conn, useMongoDB, memoryItems, memoryFeedback, dbItems,
                 dbFeedback, memSeq, oidSeq, created, deleted>>

PostFeedbackDone(req) ==
  LET data == FeedbackData(req.body) IN
  /\ req.route = "POST /feedback"
  /\ \E outcome \in DbOutcomes(TRUE, FeedbackValid(data)) :
       IF outcome = "ok"
         THEN /\ dbFeedback' = Append(dbFeedback, FeedbackDoc(data))
              /\ last' = ViaDb(Redirect(req, "/feedback", NoId))
         ELSE /\ last' = Rejected(req)
              /\ UNCHANGED dbFeedback
  /\ Resume(req)
  /\ UNCHANGED <<conn, useMongoDB, memoryItems, memoryFeedback, dbItems,
                 memSeq, oidSeq, created, deleted>>

\* ---- GET /health (index.js:195-197) --------------------------------------
Health ==
  /\ last' = HealthResponse(Request("GET /health", NoId, NoBody))
  /\ UNCHANGED <<conn, useMongoDB, memoryItems, memoryFeedback, dbItems,
                 dbFeedback, memSeq, oidSeq, inflight, created, deleted>>

\* ---- specification -----------------------------------------------------
Next ==
  \/ ConnectResolve
  \/ ConnectReject
  \/ GetItems
  \/ \E b \in ItemBodies : PostItems(b)
  \/ \E id \in IdParams : GetItem(id)
  \/ \E id \in IdParams : EditItem(id)
  \/ \E id \in IdParams, b \in PutBodies : PutItem(id, b)
  \/ \E id \in IdParams : DeleteItem(id)
  \/ GetFeedback
  \/ \E b \in FeedbackBodies : PostFeedback(b)
  \/ Health
  \/ \E req \in BagToSet(inflight) : GetItemsDone(req)
  \/ \E req \in BagToSet(inflight) : PostItemsDone(req)
  \/ \E req \in BagToSet(inflight) : GetItemDone(req)
  \/ \E req \in BagToSet(inflight) : EditItemDone(req)
  \/ \E req \in BagToSet(inflight) : PutItemDone(req)
  \/ \E req \in BagToSet(inflight) : DeleteItemDone(req)
  \/ \E req \in BagToSet(inflight) : GetFeedbackDone(req)
  \/ \E req \in BagToSet(inflight) : PostFeedbackDone(req)

Spec == Init /\ [][Next]_vars

\* the creates and reads of items alone, with up to MaxItems handlers of
\* POST /items suspended at their await at the same time
NextPosts ==
  \/ ConnectResolve
  \/ ConnectReject
  \/ \E b \in ItemBodies : PostItemsUpTo(b, MaxItems)
  \/ \E req \in BagToSet(inflight) : PostItemsDone(req)
  \/ GetItems
  \/ \E req \in BagToSet(inflight) : GetItemsDone(req)
  \/ \E id \in IdParams : GetItem(id)
  \/ \E req \in BagToSet(inflight) : GetItemDone(req)

SpecPosts == Init /\ [][NextPosts]_vars

TypeOK ==
  /\ conn \in {"unset", "pending", "connected", "failed"}
  /\ useMongoDB \in BOOLEAN
  /\ BagCardinality(inflight) <= MaxInFlight + MaxItems
  /\ memSeq + oidSeq <= MaxItems

\* ---- properties ----------------------------------------------------------
Stored == Ids(memoryItems) \cup Ids(dbItems)

StoredItem(id) ==
  IF id \in Ids(memoryItems) THEN Find(memoryItems, id) ELSE Find(dbItems, id)

Blank(v) == v = Undefined \/ Trim(v) = <<>>

\* the last step ended a request: the handler answered or its promise rejected
Ended(route) == last.route = route /\ last.ev \in {"resp", "rejected"}

\* C1: a database call that fails during a request is caught in that
\* request, the handler falls back to the in-memory array and the request
\* ends with a response (a page, a redirect or a 404 page).
C1_DbFailureHandled ==
  last.dbFailed =>
    /\ last.ev = "resp"
    /\ last.store = "memory"
    /\ last.status \in {200, 302, 404}

\* C2: an item POST /items has created can be mutated by PUT /items/<id>
\* (with a non-blank title the stored item gets the new title and content)
\* and deleted by DELETE /items/<id> (the item is stored no more), whichever
\* store holds it.  A database item whose call failed is left to C1.
C2_CreatedItemMutable ==
  /\ ( /\ Ended("PUT /items/:id")
       /\ last.id \in created \ deleted
       /\ ~Blank(last.body.title)
       /\ ~(last.id \in Ids(dbItems) /\ last.dbFailed) )
     => /\ last.ev = "resp"
        /\ last.status = 302
        /\ StoredItem(last.id).title = Trim(last.body.title)
        /\ StoredItem(last.id).content = Or(last.body.content, <<>>)
  /\ ( /\ Ended("DELETE /items/:id")
       /\ last.id \in created
       /\ ~(last.id \in Ids(dbItems) /\ last.dbFailed) )
     => /\ last.ev = "resp"
        /\ last.id \notin Stored

\* C3: when the store is unreachable at startup (MONGODB_URI unset or the
\* connection failed), POST /feedback with a non-blank message appends to
\* memoryFeedback and redirects to /feedback, and GET /feedback renders
\* memoryFeedback, without calling the database.
C3_FeedbackFallback ==
  conn \in {"unset", "failed"} =>
    /\ (Ended("POST /feedback") /\ ~Blank(last.body.message))
         => /\ last.ev = "resp"
            /\ last.status = 302
            /\ last.location.path = "/feedback"
            /\ ~last.dbCalled
            /\ memoryFeedback # <<>>
    /\ Ended("GET /feedback")
         => /\ last.ev = "resp"
            /\ last.status = 200
            /\ ~last.dbCalled
            /\ last.items = memoryFeedback

\* C4: GET /items/:id for an id that matches no stored item is answered
\* with 404, in database mode (absent or malformed id) and in memory mode.
C4_MissingItem404 ==
  (Ended("GET /items/:id") /\ last.id \notin Stored)
    => (last.ev = "resp" /\ last.status = 404)

C4_Witness ==
  /\ Ended("GET /items/:id")
  /\ last.status = 404
  /\ useMongoDB
  /\ last.dbFailed
  /\ ~CastsToObjectId(last.id)
  /\ Stored # {}

\* C5: POST /items with a blank title (missing, empty, whitespace) stores
\* an item whose title is "Untitled", in the database and in memory.
C5_BlankTitleUntitled ==
  (Ended("POST /items") /\ Blank(last.body.title))
    => /\ last.ev = "resp"
       /\ last.status = 302
       /\ last.location.id \in Stored
       /\ StoredItem(last.location.id).title = Untitled

C5_Witness ==
  /\ Ended("POST /items")
  /\ last.body.title = <<" ", " ">>
  /\ last.dbFailed
  /\ \E id \in Ids(dbItems) : StoredItem(id).title = Untitled

\* C6: every stored item has a title that is non-empty and has no leading
\* or trailing whitespace, also after a PUT with a blank title.
C6_TitlesNonEmptyTrimmed ==
  \A id \in Stored :
    /\ StoredItem(id).title # Undefined
    /\ StoredItem(id).title # <<>>
    /\ Trim(StoredItem(id).title) = StoredItem(id).title

C6_Witness ==
  /\ Ended("PUT /items/:id")
  /\ last.status = 302
  /\ last.body.title = <<" ", " ">>
  /\ StoredItem(last.id).title = <<"a">>

\* C7: POST /feedback with a blank message persists nothing and calls no
\* database: the stores and the suspended requests are unchanged, and the
\* request is answered with a redirect to /feedback in every state.
C7_BlankFeedbackNoop ==
  [][ (last'.route = "POST /feedback" /\ Blank(last'.body.message))
        => /\ last'.ev = "resp"
           /\ last'.status = 302
           /\ last'.location.path = "/feedback"
           /\ ~last'.dbCalled
           /\ UNCHANGED <<stores, inflight, useMongoDB, conn>> ]_vars

C7_Witness ==
  /\ Ended("POST /feedback")
  /\ last.body.message = <<" ">>
  /\ last.status = 302
  /\ conn = "failed"
  /\ memoryItems # <<>>

\* C8: GET /health is answered with 200 "OK" in every state, and the
\* handler changes neither useMongoDB nor the stores.
C8_HealthAlwaysOK ==
  [][ last'.route = "GET /health"
        => /\ last'.ev = "resp"
           /\ last'.status = 200
           /\ last'.text = OK
           /\ UNCHANGED <<stores, inflight, useMongoDB, conn>> ]_vars

C8_Witness ==
  /\ Ended("GET /health")
  /\ last.status = 200
  /\ conn = "pending"
  /\ ~useMongoDB
  /\ inflight # EmptyBag

\* C9 as stated: once POST /items has answered with a redirect to
\* /items/<id> and the id was not deleted, every GET /items/<id> returns the
\* item with 200 and every GET /items lists it.
C9_ReadYourWrites ==
  /\ (Ended("GET /items/:id") /\ last.id \in created \ deleted)
       => (last.status = 200 /\ last.item.id = last.id)
  /\ Ended("GET /items") => (created \ deleted) \subseteq Ids(last.items)

\* C9 amended: an item created in memory is returned with 200 by every
\* GET /items/<id> and listed by every GET /items served from memory; an
\* item created in the database and not deleted is returned and listed by
\* every GET whose database call succeeds.
C9_ReadYourWritesPerStore ==
  /\ ( /\ Ended("GET /items/:id")
       /\ last.id \in created \ deleted
       /\ (~CastsToObjectId(last.id) \/ last.store = "db") )
     => /\ last.status = 200
        /\ last.item.id = last.id
        /\ last.item.title = StoredItem(last.id).title
  /\ Ended("GET /items")
     => \A id \in created \ deleted :
          (last.store = (IF CastsToObjectId(id) THEN "db" ELSE "memory"))
            => id \in Ids(last.items)

C9_Witness ==
  /\ Ended("GET /items/:id")
  /\ useMongoDB
  /\ last.id \in Ids(memoryItems)
  /\ last.status = 200
  /\ last.item.id = last.id
  /\ dbItems # <<>>

\* C10: each POST /items that takes the in-memory path adds exactly one
\* entry to memoryItems, whatever the interleaving: no entry is lost,
\* overwritten or added twice, and the length of the array is the number
\* of in-memory creates completed.
C10_MemoryPushExact ==
  /\ Len(memoryItems) = memSeq
  /\ \A k \in 1..Len(memoryItems) : memoryItems[k].id = MemId(k)
  /\ Ids(memoryItems) = {id \in created : ~CastsToObjectId(id)}

C10_Witness ==
  /\ Ended("POST /items")
  /\ last.dbFailed
  /\ Len(memoryItems) = 1
  /\ InFlightCount("POST /items") >= 1

====
